---- MODULE Spec2Model ----
(***************************************************************************)
(* State-update-and-audit-log service (FastAPI + SQLite).                  *)
(*                                                                         *)
(* One process runs one asyncio event loop.  Every endpoint is an          *)
(* `async def` coroutine; a coroutine runs without interruption until it   *)
(* reaches an `await`.  The in-memory state is a module-level dict, the    *)
(* audit log is the table `logs` of the SQLite file DB_FILE, which         *)
(* outlives the process.                                                   *)
(***************************************************************************)
EXTENDS Integers, Sequences, FiniteSets, TLC

(***************************************************************************)
(* Bounds of the model.                                                    *)
(***************************************************************************)
NumReqs == 2        \* connections that can be open at once
MaxLog == 2         \* rows the log table may reach
MaxClock == 1       \* readings of the wall clock range over 0..MaxClock
TicksPerSec == 2    \* clock ticks per second (the real clock has 10^6)
MaxPage == 2        \* page numbers queried range over 1..MaxPage
MaxLimit == 2       \* page sizes queried range over 1..MaxLimit

Reqs == 1..NumReqs
FirstReq == CHOOSE r \in Reqs : \A o \in Reqs : r <= o
CounterVals == {0, 1}
MessageVals == {"a"}
HeaderKeys == {"k1", "k2"}
Secrets == {"k1"}

(***************************************************************************)
(* Optional[T]: None is the empty sequence, a value v is <<v>>.            *)
(***************************************************************************)
None == <<>>
Some(v) == <<v>>
Opt(S) == {None} \cup {Some(v) : v \in S}

VARIABLES
    state,        \* the module-level dict {"counter": .., "message": ..}
    db,           \* the SQLite file: table existence, rows, AUTOINCREMENT counter
    clock,        \* the wall clock datetime.now(timezone.utc) reads
    API_KEY,      \* the environment variable API_KEY of the running process
    reqs,         \* POST /update requests in flight, one coroutine per connection
    last,         \* the request answered in the last step and its response, else NoResp
    bootRows,     \* history: number of rows in the table when the process started
    appendFailed  \* history: some log_update raised since the process started

vars == <<state, db, clock, API_KEY, reqs, last, bootRows, appendFailed>>

(***************************************************************************)
(* src/state.py: the state a fresh process starts with.                    *)
(***************************************************************************)
DefaultState == [counter |-> 0, message |-> "initial"]

(***************************************************************************)
(* json.dumps / json.loads of a state dict.  The text is modelled as the   *)
(* sequence of its members, each a key with a typed literal: a number      *)
(* literal for an int, a string literal for a str.                         *)
(***************************************************************************)
NumberLit(n) == [t |-> "number", n |-> n, s |-> ""]
StringLit(s) == [t |-> "string", n |-> 0, s |-> s]

json_dumps(d) ==
    << <<"counter", NumberLit(d.counter)>>, <<"message", StringLit(d.message)>> >>

Member(text, key) ==
    LET i == CHOOSE j \in 1..Len(text) : text[j][1] = key IN text[i][2]

json_loads(text) ==
    [counter |-> Member(text, "counter").n, message |-> Member(text, "message").s]

\* StateModel(counter=.., message=..): the pydantic response model
StateModel(d) == [counter |-> d.counter, message |-> d.message]

(***************************************************************************)
(* datetime.now(timezone.utc).isoformat(): the text of a clock reading, as *)
(* a sequence of character codes.  Fields are zero padded to a fixed       *)
(* width, so a field is one code here; isoformat() leaves the fraction     *)
(* out when the microsecond is 0; the offset "+00:00" follows.             *)
(***************************************************************************)
isoformat(c) ==
    LET sec == c \div TicksPerSec
        us  == c % TicksPerSec
    IN  <<48 + sec>> \o (IF us = 0 THEN <<>> ELSE <<46, 48 + us>>) \o <<43>>

\* SQLite compares TEXT with memcmp (collation BINARY)
TextLess(a, b) ==
    \E i \in 1..Len(b) :
        /\ \A j \in 1..(i - 1) : j <= Len(a) /\ a[j] = b[j]
        /\ \/ i = Len(a) + 1
           \/ i <= Len(a) /\ a[i] < b[i]

(***************************************************************************)
(* src/app/database.py                                                     *)
(***************************************************************************)
NoFile == [exists |-> FALSE, rows |-> <<>>, seq |-> 0]

\* variant: the table is created anew on every start
init_database_recreate(d) == [exists |-> TRUE, rows |-> <<>>, seq |-> 0]

\* CREATE TABLE IF NOT EXISTS logs (...)
init_database(d) ==
    IF d.exists THEN d ELSE [exists |-> TRUE, rows |-> <<>>, seq |-> 0]

\* id INTEGER PRIMARY KEY AUTOINCREMENT: one more than the largest id ever used
NextId(d) == d.seq + 1

\* variant: the two snapshots are bound to the wrong columns
log_update_swapped(d, old_value, new_value, now) ==
    LET row == [id        |-> NextId(d),
                timestamp |-> isoformat(now),
                old_value |-> json_dumps(new_value),
                new_value |-> json_dumps(old_value)]
    IN  [d EXCEPT !.rows = Append(@, row), !.seq = row.id]

\* INSERT INTO logs (timestamp, old_value, new_value) VALUES (?, ?, ?); commit
log_update(d, old_value, new_value, now) ==
    LET row == [id        |-> NextId(d),
                timestamp |-> isoformat(now),
                old_value |-> json_dumps(old_value),
                new_value |-> json_dumps(new_value)]
    IN  [d EXCEPT !.rows = Append(@, row), !.seq = row.id]

(***************************************************************************)
(* ORDER BY timestamp DESC LIMIT ? OFFSET ?.  With a LIMIT, SQLite sorts   *)
(* through an ephemeral index keyed (timestamp DESC, sequence): it scans   *)
(* the table in rowid order and puts each row after every row whose        *)
(* timestamp is not smaller, so rows of equal timestamp come out in        *)
(* rowid order.                                                            *)
(***************************************************************************)
InsertSorted(sorted, row) ==
    LET before == {i \in 1..Len(sorted) : ~TextLess(sorted[i].timestamp, row.timestamp)}
        k == Cardinality(before)
    IN  SubSeq(sorted, 1, k) \o <<row>> \o SubSeq(sorted, k + 1, Len(sorted))

RECURSIVE OrderByTimestampDesc(_)
OrderByTimestampDesc(rows) ==
    IF rows = <<>> THEN <<>>
    ELSE InsertSorted(OrderByTimestampDesc(SubSeq(rows, 1, Len(rows) - 1)),
                      rows[Len(rows)])

\* variant: pages counted from 0
Offset_zero_based(page, limit) == page * limit

Offset(page, limit) == (page - 1) * limit

LimitOffset(sorted, limit, offset) ==
    [i \in 1..(IF Len(sorted) - offset < 0 THEN 0
               ELSE IF Len(sorted) - offset < limit THEN Len(sorted) - offset
               ELSE limit) |-> sorted[offset + i]]

get_logs(d, page, limit) ==
    LET offset == Offset(page, limit)
        total  == Len(d.rows)
        rows   == LimitOffset(OrderByTimestampDesc(d.rows), limit, offset)
        logs   == [i \in 1..Len(rows) |->
                     [id        |-> rows[i].id,
                      timestamp |-> rows[i].timestamp,
                      old_value |-> json_loads(rows[i].old_value),
                      new_value |-> json_loads(rows[i].new_value)]]
    IN  [logs |-> logs, page |-> page, limit |-> limit, total |-> total]

(***************************************************************************)
(* src/app/auth.py: verify_api_key.  0 stands for "return True", any other *)
(* value is the status_code of the HTTPException raised.                   *)
(***************************************************************************)
\* variant: a request without the header is let through
verify_api_key_lax(expected_api_key, x_api_key) ==
    IF expected_api_key = None THEN 0
    ELSE IF x_api_key = None THEN 0
    ELSE IF x_api_key # expected_api_key THEN 401
    ELSE 0

verify_api_key(expected_api_key, x_api_key) ==
    IF expected_api_key = None THEN 0
    ELSE IF x_api_key = None THEN 401
    ELSE IF x_api_key # expected_api_key THEN 401
    ELSE 0

(***************************************************************************)
(* src/app/models.py: UpdateRequest.validate_at_least_one_field.  TRUE     *)
(* when the validator raises ValueError.  A JSON null parses to None like  *)
(* a missing member.                                                       *)
(***************************************************************************)
validate_at_least_one_field(counter, message) ==
    counter = None /\ message = None

(***************************************************************************)
(* The exception handlers of the application.  src/app/main.py registers   *)
(* one handler, for pydantic.ValidationError, answering 400.  A request    *)
(* body that fails the UpdateRequest validators never reaches it: while    *)
(* FastAPI resolves the parameters of the endpoint it catches pydantic's   *)
(* ValidationError and raises its own RequestValidationError, which is not *)
(* a pydantic.ValidationError and is answered by FastAPI's built-in        *)
(* handler with 422.  An HTTPException is answered with its status_code,   *)
(* an exception no handler is registered for (a sqlite3.Error out of       *)
(* log_update) with 500.                                                   *)
(***************************************************************************)
BodyValidationException == "RequestValidationError"

\* variant: an exception without a handler is swallowed
exception_handler_swallow(exc) ==
    CASE exc = "pydantic.ValidationError" -> 400
      [] exc = "RequestValidationError"   -> 422
      [] exc = "HTTPException(401)"       -> 401
      [] OTHER                            -> 200

exception_handler(exc) ==
    CASE exc = "pydantic.ValidationError" -> 400
      [] exc = "RequestValidationError"   -> 422
      [] exc = "HTTPException(401)"       -> 401
      [] OTHER                            -> 500

(***************************************************************************)
(* src/app/routes.py: POST /update.  Calling the endpoint is seven         *)
(* statements run in order on a frame holding the shared state, the        *)
(* database and the locals of the coroutine: the two parameters of the     *)
(* endpoint (the dependency verify_api_key, the body parsed as an          *)
(* UpdateRequest) and the five statements of the body of update_state.     *)
(* Awaits is the set of statements the coroutine suspends in front of:     *)
(* none of them is or holds an `await` (verify_api_key awaits nothing,     *)
(* log_update is a plain blocking call), so the set is empty and the       *)
(* event loop runs the call in one piece once the request has been read.   *)
(***************************************************************************)
\* variant: the coroutine awaits between capturing previous_state and mutating
Awaits_between == {4}

Awaits == {}

FirstStmt == 1
LastStmt == 7

\* variant: `if request.counter:` in place of `is not None`
ApplyRequest_truthy(st, counter, message) ==
    [counter |-> IF counter # None /\ counter[1] # 0 THEN counter[1] ELSE st.counter,
     message |-> IF message # None /\ message[1] # "" THEN message[1] ELSE st.message]

ApplyRequest(st, counter, message) ==
    [counter |-> IF counter # None THEN counter[1] ELSE st.counter,
     message |-> IF message # None THEN message[1] ELSE st.message]

Snapshot(st) == [counter |-> st.counter, message |-> st.message]

\* f: the frame; q: what log_update meets (ok: the insert commits; now: the clock)
Stmt(i, f, q) ==
    CASE i = 1 -> IF verify_api_key(f.API_KEY, f.key) = 0 THEN f
                  ELSE [f EXCEPT !.status = exception_handler("HTTPException(401)")]
      [] i = 2 -> IF validate_at_least_one_field(f.counter, f.message)
                  THEN [f EXCEPT !.status = exception_handler(BodyValidationException)]
                  ELSE f
      [] i = 3 -> [f EXCEPT !.previous_state = Some(Snapshot(f.state))]
      [] i = 4 -> [f EXCEPT !.state = ApplyRequest(f.state, f.counter, f.message)]
      [] i = 5 -> [f EXCEPT !.new_state = Some(Snapshot(f.state))]
      [] i = 6 -> IF q.ok /\ f.db.exists
                  THEN [f EXCEPT !.db = log_update(f.db, f.previous_state[1],
                                                    f.new_state[1], q.now)]
                  ELSE [f EXCEPT !.status = exception_handler("sqlite3.Error")]
      [] OTHER -> [f EXCEPT !.status = 200, !.body = Some(StateModel(f.state))]

\* run from statement i to the end, to an exception, or to the next await
RECURSIVE RunHandler(_, _, _, _)
RunHandler(i, f, q, resumed) ==
    IF f.status # 0 \/ i > LastStmt THEN [f EXCEPT !.at = 0]
    ELSE IF ~resumed /\ i \in Awaits THEN [f EXCEPT !.at = i]
    ELSE RunHandler(i + 1, Stmt(i, f, q), q, FALSE)

(***************************************************************************)
(* Requests in flight.  A connection is idle, or pending (a POST /update   *)
(* is on the wire: `await request.json()` has not returned), or suspended  *)
(* (its coroutine stopped at an await in front of statement `at`).         *)
(***************************************************************************)
IdleReq ==
    [pc |-> "idle", at |-> 0, key |-> None, counter |-> None, message |-> None,
     previous_state |-> None, new_state |-> None]

NoResp ==
    [kind |-> "none", key |-> None, counter |-> None, message |-> None,
     previous_state |-> None, new_state |-> None, status |-> 0, body |-> None,
     logs |-> <<>>, page |-> 0, limit |-> 0, total |-> 0]

Init ==
    /\ state = DefaultState
    /\ db = init_database(NoFile)
    /\ clock = 0
    /\ API_KEY \in Opt(Secrets)
    /\ reqs = [r \in Reqs |-> IdleReq]
    /\ last = NoResp
    /\ bootRows = 0
    /\ appendFailed = FALSE

\* a client opens a connection and sends a POST /update
Connect(r) ==
    /\ reqs[r].pc = "idle"
    /\ reqs' = [reqs EXCEPT ![r] = [IdleReq EXCEPT !.pc = "pending", !.at = FirstStmt]]
    /\ last' = NoResp
    /\ UNCHANGED <<state, db, clock, API_KEY, bootRows, appendFailed>>

\* what a client may send: header X-API-KEY and JSON body {counter?, message?}
AllRequests ==
    [key : Opt(HeaderKeys), counter : Opt(CounterVals), message : Opt(MessageVals)]

\* the frame the coroutine of connection r runs on: a pending request is read
\* as `request`, a suspended one carries on with its locals
Frame(r, request) ==
    LET mine == IF reqs[r].pc = "pending"
                THEN [reqs[r] EXCEPT !.key = request.key, !.counter = request.counter,
                                     !.message = request.message]
                ELSE reqs[r]
    IN  [state |-> state, db |-> db, API_KEY |-> API_KEY, at |-> mine.at,
         key |-> mine.key, counter |-> mine.counter, message |-> mine.message,
         previous_state |-> mine.previous_state, new_state |-> mine.new_state,
         status |-> 0, body |-> None]

\* the event loop runs (or resumes) the call of update_state for connection r,
\* whose client sends one of `requests`; when it ends the response is sent
update_state(r, requests) ==
    /\ reqs[r].pc \in {"pending", "suspended"}
    /\ Len(db.rows) < MaxLog
    /\ \E request \in requests, ok \in BOOLEAN :
         \E f \in {RunHandler(reqs[r].at, Frame(r, request),
                              [ok |-> ok, now |-> clock], TRUE)} :
             /\ state' = f.state
             /\ db' = f.db
             /\ reqs' = [reqs EXCEPT ![r] =
                           IF f.at = 0 THEN IdleReq
                           ELSE [pc |-> "suspended", at |-> f.at, key |-> f.key,
                                 counter |-> f.counter, message |-> f.message,
                                 previous_state |-> f.previous_state,
                                 new_state |-> f.new_state]]
             /\ last' = IF f.at # 0 THEN NoResp
                        ELSE [NoResp EXCEPT !.kind = "update", !.key = f.key,
                                            !.counter = f.counter, !.message = f.message,
                                            !.previous_state = f.previous_state,
                                            !.new_state = f.new_state,
                                            !.status = f.status, !.body = f.body]
             /\ appendFailed' = (appendFailed \/ f.status = 500)
    /\ UNCHANGED <<clock, API_KEY, bootRows>>

\* GET /status (timestamp and uptime_seconds are left out)
get_status ==
    /\ last' = [NoResp EXCEPT !.kind = "status", !.status = 200,
                              !.body = Some(StateModel(state))]
    /\ UNCHANGED <<state, db, clock, API_KEY, reqs, bootRows, appendFailed>>

\* GET /logs?page=..&limit=..
get_logs_endpoint ==
    /\ db.exists
    /\ \E page \in 1..MaxPage, limit \in 1..MaxLimit :
         \E logs_data \in {get_logs(db, page, limit)} :
           last' = [NoResp EXCEPT
                      !.kind = "logs",
                      !.status = 200,
                      !.logs = [i \in 1..Len(logs_data.logs) |->
                                  [id        |-> logs_data.logs[i].id,
                                   timestamp |-> logs_data.logs[i].timestamp,
                                   old_value |-> StateModel(logs_data.logs[i].old_value),
                                   new_value |-> StateModel(logs_data.logs[i].new_value)]],
                      !.page = logs_data.page,
                      !.limit = logs_data.limit,
                      !.total = logs_data.total]
    /\ UNCHANGED <<state, db, clock, API_KEY, reqs, bootRows, appendFailed>>

\* the wall clock advances
Tick ==
    /\ clock < MaxClock
    /\ clock' = clock + 1
    /\ last' = NoResp
    /\ UNCHANGED <<state, db, API_KEY, reqs, bootRows, appendFailed>>

\* the wall clock is set back (datetime.now reads the adjustable system time)
ClockSetBack ==
    /\ clock > 0
    /\ clock' = clock - 1
    /\ last' = NoResp
    /\ UNCHANGED <<state, db, API_KEY, reqs, bootRows, appendFailed>>

\* the process exits and starts again: the modules are imported afresh, the
\* connections are gone, startup_event calls init_database on the same file
Restart ==
    /\ state' = DefaultState
    /\ db' = init_database(db)
    /\ reqs' = [r \in Reqs |-> IdleReq]
    /\ last' = NoResp
    /\ bootRows' = Len(db'.rows)
    /\ appendFailed' = FALSE
    /\ UNCHANGED <<clock, API_KEY>>

(***************************************************************************)
(* The update pipeline: concurrent updates, failing appends, status reads  *)
(* and restarts.  Authentication is switched off and no header is sent;    *)
(* the clock only stamps the rows, so it stands still.                     *)
(***************************************************************************)
NoKeyRequests == {q \in AllRequests : q.key = None}

InitUpdate == Init /\ API_KEY = None

NextUpdate ==
    \/ \E r \in Reqs : Connect(r)
    \/ \E r \in Reqs : update_state(r, NoKeyRequests)
    \/ get_status
    \/ Restart

SpecUpdate == InitUpdate /\ [][NextUpdate]_vars

(***************************************************************************)
(* Authentication and validation: API_KEY set or not, every header and     *)
(* body, on one connection (the two checks read nothing that is shared).   *)
(***************************************************************************)
NextAuth ==
    \/ Connect(FirstReq)
    \/ update_state(FirstReq, AllRequests)
    \/ get_status
    \/ Restart

SpecAuth == Init /\ [][NextAuth]_vars

(***************************************************************************)
(* The audit log: appends under a clock that moves, restarts, listings.    *)
(* Authentication is switched off, one connection is used and the updates  *)
(* set the counter: none of this decides anything about the order of the   *)
(* rows, appends are one after the other.                                  *)
(***************************************************************************)
CounterRequests ==
    {q \in AllRequests : q.key = None /\ q.counter # None /\ q.message = None}

InitLogs == Init /\ API_KEY = None

NextLogs ==
    \/ Connect(FirstReq)
    \/ update_state(FirstReq, CounterRequests)
    \/ get_logs_endpoint
    \/ Tick
    \/ ClockSetBack
    \/ Restart

SpecLogs == InitLogs /\ [][NextLogs]_vars

(***************************************************************************)
(* Vocabulary of the properties.                                           *)
(***************************************************************************)
IsPrefix(a, b) == Len(a) <= Len(b) /\ SubSeq(b, 1, Len(a)) = a

OldOf(d, i) == json_loads(d.rows[i].old_value)
NewOf(d, i) == json_loads(d.rows[i].new_value)

\* the step answers a POST /update (every other step overwrites `last`)
UpdateAnswered == last'.kind = "update"
UpdateSucceeded == last'.kind = "update" /\ last'.status = 200

\* field by field: the value the request supplies, else the value st holds
Merged(st, counter, message) ==
    [counter |-> IF Len(counter) = 0 THEN st.counter ELSE Head(counter),
     message |-> IF Len(message) = 0 THEN st.message ELSE Head(message)]

SameWhereNotSupplied(x) ==
    /\ x.counter = None => x.new_state[1].counter = x.previous_state[1].counter
    /\ x.message = None => x.new_state[1].message = x.previous_state[1].message

NoneSuspended == \A r \in Reqs : reqs[r].pc # "suspended"

(***************************************************************************)
(* C1.  A step in which a POST /update succeeds appends exactly one row to *)
(* the log, leaving the rows before it as they were; the row's old_value   *)
(* is the in-memory state before the step and its new_value the state      *)
(* after it.  No other step adds a row.                                    *)
(***************************************************************************)
C1_OneEntryPerUpdate ==
    [][ LET n == Len(db.rows) IN
        IF UpdateSucceeded
        THEN /\ Len(db'.rows) = n + 1
             /\ IsPrefix(db.rows, db'.rows)
             /\ OldOf(db', n + 1) = state
             /\ NewOf(db', n + 1) = state'
        ELSE Len(db'.rows) = n ]_vars

C1_Witness ==
    /\ last.kind = "update" /\ last.status = 200
    /\ Len(db.rows) = 2
    /\ OldOf(db, 2) # NewOf(db, 2)
    /\ OldOf(db, 2) # DefaultState

(***************************************************************************)
(* C2.  The state starts as {counter: 0, message: "initial"}.  A           *)
(* successful update returns, and leaves as the in-memory state, the state *)
(* before it with every field the request supplies replaced by the         *)
(* request's value and every other field unchanged; GET /status reports    *)
(* the in-memory state and changes nothing.                                *)
(***************************************************************************)
C2_MergedState ==
    [][ /\ UpdateSucceeded =>
             /\ last'.body = Some(Merged(state, last'.counter, last'.message))
             /\ state' = Merged(state, last'.counter, last'.message)
        /\ last'.kind = "status" =>
             /\ last'.body = Some(state)
             /\ state' = state ]_vars

C2_Witness ==
    /\ last.kind = "update" /\ last.status = 200
    /\ last.counter = None /\ last.message = Some("a")
    /\ last.body = Some([counter |-> 1, message |-> "a"])

(***************************************************************************)
(* C3.  No coroutine is ever suspended between capturing previous_state    *)
(* and capturing new_state, and in every update the two snapshots agree on *)
(* each field the request did not supply, whatever other requests are in   *)
(* flight.                                                                 *)
(***************************************************************************)
C3_AtomicReadModifyWrite ==
    /\ \A r \in Reqs : reqs[r].previous_state # None => reqs[r].new_state # None
    /\ \A r \in Reqs : reqs[r].new_state # None => SameWhereNotSupplied(reqs[r])
    /\ (last.kind = "update" /\ last.new_state # None) => SameWhereNotSupplied(last)

C3_Witness ==
    /\ last.kind = "update" /\ last.status = 200
    /\ last.previous_state # Some(DefaultState)
    /\ last.previous_state # last.new_state
    /\ \E r \in Reqs : reqs[r].pc = "pending"

(***************************************************************************)
(* C4.  A POST /update is answered 401 exactly when API_KEY is set and the *)
(* X-API-KEY header is missing or differs from it; a step answering 401    *)
(* changes neither the in-memory state nor the database.                   *)
(***************************************************************************)
C4_Denied ==
    [][ UpdateAnswered =>
          /\ last'.status = 401 <=>
                (Len(API_KEY) = 1 /\ (Len(last'.key) = 0 \/ last'.key[1] # API_KEY[1]))
          /\ last'.status = 401 => (state' = state /\ db' = db) ]_vars

C4_Witness ==
    /\ last.kind = "update" /\ last.status = 401
    /\ last.key = Some("k2") /\ last.counter = Some(0)
    /\ Len(db.rows) > 0 /\ state.counter # 0

(***************************************************************************)
(* C5.  A POST /update that passes authentication and whose body supplies  *)
(* neither counter nor message is answered 400, and the step changes       *)
(* neither the in-memory state nor the database.                           *)
(***************************************************************************)
C5_EmptyBodyIs400 ==
    [][ (UpdateAnswered /\ last'.status # 401
           /\ last'.counter = None /\ last'.message = None) =>
          /\ last'.status = 400
          /\ state' = state
          /\ db' = db ]_vars

(***************************************************************************)
(* C6.  GET /logs?page=p&limit=l answers with total = the number of rows   *)
(* and with the rows ranked (p-1)*l+1 .. min(p*l, total), in rank order,   *)
(* where a row's rank counts the rows with a greater timestamp text and    *)
(* the rows of equal timestamp and smaller id: at most l entries, none     *)
(* when the page lies beyond the rows.                                     *)
(***************************************************************************)
Rank(d, i) ==
    1 + Cardinality({j \in 1..Len(d.rows) :
                       \/ TextLess(d.rows[i].timestamp, d.rows[j].timestamp)
                       \/ /\ d.rows[j].timestamp = d.rows[i].timestamp
                          /\ d.rows[j].id < d.rows[i].id})

C6_Pagination ==
    last.kind = "logs" =>
      LET n  == Len(db.rows)
          lo == (last.page - 1) * last.limit + 1
          hi == IF last.page * last.limit < n THEN last.page * last.limit ELSE n
      IN  /\ last.total = n
          /\ Len(last.logs) = IF hi >= lo THEN hi - lo + 1 ELSE 0
          /\ Len(last.logs) <= last.limit
          /\ \A k \in 1..Len(last.logs) :
               \E i \in 1..n :
                 /\ Rank(db, i) = lo + k - 1
                 /\ last.logs[k].id = db.rows[i].id
                 /\ last.logs[k].timestamp = db.rows[i].timestamp
                 /\ json_dumps(last.logs[k].old_value) = db.rows[i].old_value
                 /\ json_dumps(last.logs[k].new_value) = db.rows[i].new_value

C6_Witness ==
    /\ last.kind = "logs" /\ last.page = 2 /\ last.limit = 1
    /\ last.total = 2 /\ Len(last.logs) = 1
    /\ db.rows[1].timestamp # db.rows[2].timestamp

(***************************************************************************)
(* C7.  The ids of the rows are strictly increasing in insertion order, no *)
(* row has a smaller timestamp than a row inserted before it, and GET      *)
(* /logs lists the rows in reverse insertion order (ids descending).       *)
(***************************************************************************)
C7_ReverseInsertionOrder ==
    /\ \A i, j \in 1..Len(db.rows) : i < j => db.rows[i].id < db.rows[j].id
    /\ \A i, j \in 1..Len(db.rows) :
         i < j => ~TextLess(db.rows[j].timestamp, db.rows[i].timestamp)
    /\ last.kind = "logs" =>
         \A k \in 1..(Len(last.logs) - 1) : last.logs[k].id > last.logs[k + 1].id

(***************************************************************************)
(* C8.  No step removes or changes a row of the log.  A restart puts the   *)
(* in-memory state back to {counter: 0, message: "initial"} and leaves the *)
(* rows as they were, and calling init_database once more on the result    *)
(* changes nothing.                                                        *)
(***************************************************************************)
C8_RestartKeepsLog ==
    [][ /\ IsPrefix(db.rows, db'.rows)
        /\ Restart => /\ state' = DefaultState
                      /\ db'.rows = db.rows
                      /\ init_database(db') = db' ]_vars

C8_Witness ==
    /\ bootRows = 2 /\ Len(db.rows) = 2
    /\ state = DefaultState
    /\ NewOf(db, 2) # DefaultState
    /\ last.kind = "status"

(***************************************************************************)
(* C9 as stated.  When log_update fails in an update, the update is        *)
(* answered with a failure and no state, the database is unchanged, the    *)
(* in-memory state keeps the new value, and no row of the log has a        *)
(* new_value equal to that state.                                          *)
(***************************************************************************)
C9_NoMatchingEntry ==
    [][ (UpdateAnswered /\ last'.status = 500) =>
          /\ last'.body = None
          /\ db' = db
          /\ state' = Merged(state, last'.counter, last'.message)
          /\ \A i \in 1..Len(db'.rows) : NewOf(db', i) # state' ]_vars

(***************************************************************************)
(* C9 amended.  An update that got as far as mutating the state leaves the *)
(* merged state in memory whatever follows, and then either appends one    *)
(* row and answers 200 with that state, or (log_update failed) answers 500 *)
(* with no state and leaves the database as it was: nothing is rolled      *)
(* back and this update has no row.                                        *)
(***************************************************************************)
C9_FailedAppendKeepsState ==
    [][ (UpdateAnswered /\ last'.new_state # None) =>
          /\ state' = Merged(state, last'.counter, last'.message)
          /\ \/ /\ last'.status = 200
                /\ last'.body = Some(state')
                /\ Len(db'.rows) = Len(db.rows) + 1
             \/ /\ last'.status = 500
                /\ last'.body = None
                /\ db' = db ]_vars

C9_Witness ==
    /\ last.kind = "update" /\ last.status = 500
    /\ state # DefaultState
    /\ Len(db.rows) = 1
    /\ NewOf(db, 1) # state
    /\ bootRows = 0

(***************************************************************************)
(* C10.  As long as no log_update has failed since the process started,    *)
(* the rows appended since then form a chain: the first has old_value      *)
(* {counter: 0, message: "initial"}, every later one has the new_value of  *)
(* the row before it as its old_value, and when no update is under way the *)
(* in-memory state is the new_value of the last row (the default state if  *)
(* none was appended).                                                     *)
(***************************************************************************)
C10_Chain ==
    ~appendFailed =>
      /\ \A i \in (bootRows + 1)..Len(db.rows) :
           OldOf(db, i) = IF i = bootRows + 1 THEN DefaultState ELSE NewOf(db, i - 1)
      /\ NoneSuspended =>
           state = IF Len(db.rows) = bootRows THEN DefaultState
                   ELSE NewOf(db, Len(db.rows))

C10_Witness ==
    /\ ~appendFailed /\ bootRows = 0 /\ Len(db.rows) = 2
    /\ NewOf(db, 1) # DefaultState
    /\ NewOf(db, 2) # NewOf(db, 1)
    /\ \E r \in Reqs : reqs[r].pc = "pending"

====
